---- MODULE Spec2Model ----
(***************************************************************************)
(* The pass-through buffer stage of lib/buffer/none.go (type Empty): the   *)
(* forwarding loop, StartReceiving, CloseAsync/StopConsuming and           *)
(* WaitForClose, together with the goroutines that call them, the producer *)
(* that owns the inbound channels and the consumer that reads              *)
(* TransactionChan().                                                      *)
(*                                                                         *)
(* Every goroutine is a process with a program counter.  A step is one     *)
(* atomic memory operation or one channel operation of the Go code.        *)
(* Closing a closed channel and sending on a closed channel panic; an      *)
(* unrecovered panic ends the Go process, so nothing moves once panic is   *)
(* set.                                                                    *)
(***************************************************************************)
EXTENDS Naturals, Sequences, FiniteSets, TLC

\* ---------------------------------------------------------------- bounds
\* Transactions the producer sends on an inbound channel.
MaxTx == 2

\* The nil channel: the value of messagesIn that NewEmpty leaves.
Nil == 0
\* The inbound channels a caller may pass to StartReceiving.
Chans == {1, 2}
Args == {Nil} \cup Chans
\* The inbound channels the producer sends on and closes within the window
\* modelled; the other channels stay open and empty.
DataChans == {1}
\* Goroutines calling StartReceiving; the loop spawned by caller t is loop t.
Starters == {1, 2}
\* Goroutines calling CloseAsync / StopConsuming.
Stoppers == {1, 2}
\* Goroutines calling WaitForClose.
Waiters == {1, 2}

\* The zero types.Transaction of `var inT types.Transaction`.
NoTx == <<>>
\* The k-th transaction sent on channel c.
Tx(c, k) == <<c, k>>

VARIABLES
    running,      \* Empty.running (int32, accessed atomically)
    messagesIn,   \* Empty.messagesIn: Nil or an inbound channel
    messagesOut,  \* Empty.messagesOut: "open" or "closed" (capacity 0)
    closeChan,    \* Empty.closeChan: "open" or "closed"
    closed,       \* Empty.closed: "open" or "closed"
    panic,        \* "none", or the runtime panic that ended the process
    lpc,          \* loop t: position of the goroutine running Empty.loop
    lch,          \* loop t: the channel operand its select evaluated
    inT,          \* loop t: the local inT
    spc,          \* StartReceiving caller t: position in the call
    sarg,         \* StartReceiving caller t: its argument msgs
    sret,         \* StartReceiving caller t: the value returned
    cpc,          \* CloseAsync caller s: position in the call
    stopRequested, \* a CloseAsync/StopConsuming call has been issued
    casWins,      \* CloseAsync calls whose compare-and-swap succeeded
    closeChanCloses, \* close(e.closeChan) statements executed
    wpc,          \* WaitForClose caller w: position / returned value
    inbox,        \* inbound channel c: the element of the pending send, if any
    inClosed,     \* inbound channel c: closed by the producer
    nsent,        \* inbound channel c: transactions the producer has sent
    received,     \* history: transactions the loops received, in order
    delivered,    \* history: transactions the consumer received, in order
    recvAfterStop, \* history, per loop: receives made after a CAS succeeded
    sentAfterStop, \* history, per loop: hand-offs made after a CAS succeeded
    stopBeforeStart \* history: a CAS succeeded before any StartReceiving

vars == <<running, messagesIn, messagesOut, closeChan, closed, panic,
          lpc, lch, inT, spc, sarg, sret, cpc, stopRequested, casWins,
          closeChanCloses, wpc, inbox, inClosed, nsent, received, delivered,
          recvAfterStop, sentAfterStop, stopBeforeStart>>

stageVars == <<running, messagesIn, messagesOut, closeChan, closed, panic>>
loopVars == <<lpc, lch, inT>>
startVars == <<spc, sarg, sret>>
stopVars == <<cpc, stopRequested, casWins, closeChanCloses, stopBeforeStart>>
inVars == <<inbox, inClosed, nsent>>
histVars == <<received, delivered, recvAfterStop, sentAfterStop>>

\* An unrecovered panic ends the process: no goroutine takes another step.
Alive == panic = "none"

\* ------------------------------------------------------------- NewEmpty
\* The state after NewEmpty: running 1, three fresh open channels, no
\* inbound handle, no goroutine started.
NewEmpty ==
    /\ running = 1
    /\ messagesIn = Nil
    /\ messagesOut = "open"
    /\ closeChan = "open"
    /\ closed = "open"

Init ==
    /\ NewEmpty
    /\ panic = "none"
    /\ lpc = [t \in Starters |-> "none"]
    /\ lch = [t \in Starters |-> Nil]
    /\ inT = [t \in Starters |-> NoTx]
    /\ spc = [t \in Starters |-> "idle"]
    /\ sarg = [t \in Starters |-> Nil]
    /\ sret = [t \in Starters |-> "none"]
    /\ cpc = [s \in Stoppers |-> "idle"]
    /\ stopRequested = FALSE
    /\ casWins = 0
    /\ closeChanCloses = 0
    /\ wpc = [w \in Waiters |-> "idle"]
    /\ inbox = [c \in Chans |-> <<>>]
    /\ inClosed = [c \in Chans |-> FALSE]
    /\ nsent = [c \in Chans |-> 0]
    /\ received = <<>>
    /\ delivered = <<>>
    /\ recvAfterStop = [t \in Starters |-> 0]
    /\ sentAfterStop = [t \in Starters |-> 0]
    /\ stopBeforeStart = FALSE

\* ------------------------------------------------------- StartReceiving
\* Mutant of StartReceivingCheck: the test of e.messagesIn is missing.
StartReceivingCheck_NoCheck(t, m) ==
    /\ Alive
    /\ spc[t] = "idle"
    /\ sarg' = [sarg EXCEPT ![t] = m]
    /\ spc' = [spc EXCEPT ![t] = "assign"]
    /\ UNCHANGED <<stageVars, loopVars, sret, stopVars, wpc, inVars, histVars>>

\* Line 102-104: the call with argument m reads e.messagesIn and returns
\* ErrAlreadyStarted when it is not nil.
StartReceivingCheck(t, m) ==
    /\ Alive
    /\ spc[t] = "idle"
    /\ sarg' = [sarg EXCEPT ![t] = m]
    /\ IF messagesIn # Nil
         THEN /\ spc' = [spc EXCEPT ![t] = "done"]
              /\ sret' = [sret EXCEPT ![t] = "ErrAlreadyStarted"]
         ELSE /\ spc' = [spc EXCEPT ![t] = "assign"]
              /\ sret' = sret
    /\ UNCHANGED <<stageVars, loopVars, stopVars, wpc, inVars, histVars>>

\* Line 105: e.messagesIn = msgs.
StartReceivingAssign(t) ==
    /\ Alive
    /\ spc[t] = "assign"
    /\ messagesIn' = sarg[t]
    /\ spc' = [spc EXCEPT ![t] = "spawn"]
    /\ UNCHANGED <<running, messagesOut, closeChan, closed, panic, loopVars,
                   sarg, sret, stopVars, wpc, inVars, histVars>>

\* Line 106-107: go e.loop(); return nil.
StartReceivingSpawn(t) ==
    /\ Alive
    /\ spc[t] = "spawn"
    /\ lpc' = [lpc EXCEPT ![t] = "check"]
    /\ spc' = [spc EXCEPT ![t] = "done"]
    /\ sret' = [sret EXCEPT ![t] = "nil"]
    /\ UNCHANGED <<stageVars, lch, inT, sarg, stopVars, wpc, inVars, histVars>>

\* ----------------------------------------------------------- Empty.loop
\* Mutant of LoopCheck: the loop condition is not evaluated; the loop
\* always enters the first select.
LoopCheck_NoLoad(t) ==
    /\ Alive
    /\ lpc[t] = "check"
    /\ lpc' = [lpc EXCEPT ![t] = "recv"]
    /\ lch' = [lch EXCEPT ![t] = messagesIn]
    /\ inT' = [inT EXCEPT ![t] = NoTx]
    /\ UNCHANGED <<stageVars, startVars, stopVars, wpc, inVars, histVars>>

\* Line 80-82: the loop condition loads running; when it is 1 the loop
\* enters the first select, which evaluates its channel operand
\* e.messagesIn once.  Otherwise the function returns into the deferred
\* function.
LoopCheck(t) ==
    /\ Alive
    /\ lpc[t] = "check"
    /\ IF running = 1
         THEN /\ lpc' = [lpc EXCEPT ![t] = "recv"]
              /\ lch' = [lch EXCEPT ![t] = messagesIn]
              /\ inT' = [inT EXCEPT ![t] = NoTx]
         ELSE /\ lpc' = [lpc EXCEPT ![t] = "store"]
              /\ UNCHANGED <<lch, inT>>
    /\ UNCHANGED <<stageVars, startVars, stopVars, wpc, inVars, histVars>>

\* Line 83, open = true: an element is received from the inbound channel.
\* A nil channel is never ready.
LoopRecv(t) ==
    /\ Alive
    /\ lpc[t] = "recv"
    /\ lch[t] # Nil
    /\ inbox[lch[t]] # <<>>
    /\ inT' = [inT EXCEPT ![t] = Head(inbox[lch[t]])]
    /\ inbox' = [inbox EXCEPT ![lch[t]] = Tail(@)]
    /\ received' = Append(received, Head(inbox[lch[t]]))
    /\ recvAfterStop' = IF casWins >= 1
                          THEN [recvAfterStop EXCEPT ![t] = @ + 1]
                          ELSE recvAfterStop
    /\ lpc' = [lpc EXCEPT ![t] = "send"]
    /\ UNCHANGED <<stageVars, lch, startVars, stopVars, wpc, inClosed, nsent,
                   delivered, sentAfterStop>>

\* Line 83-86, open = false: the inbound channel is closed and drained.
LoopRecvClosed(t) ==
    /\ Alive
    /\ lpc[t] = "recv"
    /\ lch[t] # Nil
    /\ inbox[lch[t]] = <<>>
    /\ inClosed[lch[t]]
    /\ lpc' = [lpc EXCEPT ![t] = "store"]
    /\ UNCHANGED <<stageVars, lch, inT, startVars, stopVars, wpc, inVars,
                   histVars>>

\* Line 87-88: the close request is received in the first select.
LoopRecvStop(t) ==
    /\ Alive
    /\ lpc[t] = "recv"
    /\ closeChan = "closed"
    /\ lpc' = [lpc EXCEPT ![t] = "store"]
    /\ UNCHANGED <<stageVars, lch, inT, startVars, stopVars, wpc, inVars,
                   histVars>>

\* Line 91: the consumer receives inT from the unbuffered messagesOut.
LoopSend(t) ==
    /\ Alive
    /\ lpc[t] = "send"
    /\ messagesOut = "open"
    /\ delivered' = Append(delivered, inT[t])
    /\ sentAfterStop' = IF casWins >= 1
                          THEN [sentAfterStop EXCEPT ![t] = @ + 1]
                          ELSE sentAfterStop
    /\ lpc' = [lpc EXCEPT ![t] = "check"]
    /\ UNCHANGED <<stageVars, lch, inT, startVars, stopVars, wpc, inVars,
                   received, recvAfterStop>>

\* Line 91 on a closed messagesOut: the send panics.
LoopSendClosed(t) ==
    /\ Alive
    /\ lpc[t] = "send"
    /\ messagesOut = "closed"
    /\ panic' = "send on closed channel"
    /\ UNCHANGED <<running, messagesIn, messagesOut, closeChan, closed,
                   loopVars, startVars, stopVars, wpc, inVars, histVars>>

\* Line 92-93: the close request is received in the second select; inT is
\* not sent.
LoopSendStop(t) ==
    /\ Alive
    /\ lpc[t] = "send"
    /\ closeChan = "closed"
    /\ lpc' = [lpc EXCEPT ![t] = "store"]
    /\ UNCHANGED <<stageVars, lch, inT, startVars, stopVars, wpc, inVars,
                   histVars>>

\* Mutant of LoopDeferStore: the deferred function goes on to the closes
\* without storing 0 into running.
LoopDeferStore_NoStore(t) ==
    /\ Alive
    /\ lpc[t] = "store"
    /\ lpc' = [lpc EXCEPT ![t] = "closeOut"]
    /\ UNCHANGED <<stageVars, lch, inT, startVars, stopVars, wpc, inVars,
                   histVars>>

\* Line 73: atomic.StoreInt32(&e.running, 0).
LoopDeferStore(t) ==
    /\ Alive
    /\ lpc[t] = "store"
    /\ running' = 0
    /\ lpc' = [lpc EXCEPT ![t] = "closeOut"]
    /\ UNCHANGED <<messagesIn, messagesOut, closeChan, closed, panic, lch, inT,
                   startVars, stopVars, wpc, inVars, histVars>>

\* Line 75: close(e.messagesOut).
LoopDeferCloseOut(t) ==
    /\ Alive
    /\ lpc[t] = "closeOut"
    /\ IF messagesOut = "closed"
         THEN /\ panic' = "close of closed messagesOut"
              /\ UNCHANGED <<messagesOut, lpc>>
         ELSE /\ messagesOut' = "closed"
              /\ lpc' = [lpc EXCEPT ![t] = "closeClosed"]
              /\ panic' = panic
    /\ UNCHANGED <<running, messagesIn, closeChan, closed, lch, inT,
                   startVars, stopVars, wpc, inVars, histVars>>

\* Mutant of LoopDeferCloseClosed: the deferred function returns without
\* closing e.closed.
LoopDeferCloseClosed_NoClose(t) ==
    /\ Alive
    /\ lpc[t] = "closeClosed"
    /\ lpc' = [lpc EXCEPT ![t] = "done"]
    /\ UNCHANGED <<stageVars, lch, inT, startVars, stopVars, wpc, inVars,
                   histVars>>

\* Line 76: close(e.closed).
LoopDeferCloseClosed(t) ==
    /\ Alive
    /\ lpc[t] = "closeClosed"
    /\ IF closed = "closed"
         THEN /\ panic' = "close of closed closed"
              /\ UNCHANGED <<closed, lpc>>
         ELSE /\ closed' = "closed"
              /\ lpc' = [lpc EXCEPT ![t] = "done"]
              /\ panic' = panic
    /\ UNCHANGED <<running, messagesIn, messagesOut, closeChan, lch, inT,
                   startVars, stopVars, wpc, inVars, histVars>>

\* ----------------------------------------- CloseAsync / StopConsuming
\* Mutant of CloseAsyncCAS: running is loaded and compared with 1, and not
\* swapped to 0.
CloseAsyncCAS_LoadOnly(s) ==
    /\ Alive
    /\ cpc[s] = "idle"
    /\ stopRequested' = TRUE
    /\ IF running = 1
         THEN /\ casWins' = casWins + 1
              /\ cpc' = [cpc EXCEPT ![s] = "close"]
              /\ stopBeforeStart' = (\A t \in Starters : spc[t] = "idle")
         ELSE UNCHANGED <<casWins, cpc, stopBeforeStart>>
    /\ UNCHANGED <<stageVars, loopVars, startVars, closeChanCloses, wpc,
                   inVars, histVars>>

\* Line 128: atomic.CompareAndSwapInt32(&e.running, 1, 0).  StopConsuming
\* (line 122-124) only calls CloseAsync.
CloseAsyncCAS(s) ==
    /\ Alive
    /\ cpc[s] = "idle"
    /\ stopRequested' = TRUE
    /\ IF running = 1
         THEN /\ running' = 0
              /\ casWins' = casWins + 1
              /\ cpc' = [cpc EXCEPT ![s] = "close"]
              /\ stopBeforeStart' = (\A t \in Starters : spc[t] = "idle")
         ELSE UNCHANGED <<running, casWins, cpc, stopBeforeStart>>
    /\ UNCHANGED <<messagesIn, messagesOut, closeChan, closed, panic,
                   loopVars, startVars, closeChanCloses, wpc, inVars, histVars>>

\* Mutant of CloseAsyncClose: the stop request also closes e.messagesOut
\* itself instead of leaving it to the loop.
CloseAsyncClose_AlsoOut(s) ==
    /\ Alive
    /\ cpc[s] = "close"
    /\ closeChanCloses' = closeChanCloses + 1
    /\ cpc' = [cpc EXCEPT ![s] = "idle"]
    /\ IF closeChan = "closed" \/ messagesOut = "closed"
         THEN /\ panic' = IF closeChan = "closed"
                            THEN "close of closed closeChan"
                            ELSE "close of closed messagesOut"
              /\ UNCHANGED <<closeChan, messagesOut>>
         ELSE /\ closeChan' = "closed"
              /\ messagesOut' = "closed"
              /\ panic' = panic
    /\ UNCHANGED <<running, messagesIn, closed, loopVars, startVars,
                   stopRequested, casWins, stopBeforeStart, wpc, inVars,
                   histVars>>

\* Line 129: close(e.closeChan).
CloseAsyncClose(s) ==
    /\ Alive
    /\ cpc[s] = "close"
    /\ closeChanCloses' = closeChanCloses + 1
    /\ cpc' = [cpc EXCEPT ![s] = "idle"]
    /\ IF closeChan = "closed"
         THEN /\ panic' = "close of closed closeChan"
              /\ closeChan' = closeChan
         ELSE /\ closeChan' = "closed"
              /\ panic' = panic
    /\ UNCHANGED <<running, messagesIn, messagesOut, closed, loopVars,
                   startVars, stopRequested, casWins, stopBeforeStart, wpc,
                   inVars, histVars>>

\* --------------------------------------------------------- WaitForClose
\* Line 134-135: the call enters its select; the timer of time.After runs.
WaitForCloseCall(w) ==
    /\ Alive
    /\ wpc[w] = "idle"
    /\ wpc' = [wpc EXCEPT ![w] = "waiting"]
    /\ UNCHANGED <<stageVars, loopVars, startVars, stopVars, inVars, histVars>>

\* Mutant of WaitForCloseNil: the select waits on e.messagesOut instead of
\* e.closed.
WaitForCloseNil_OnMessagesOut(w) ==
    /\ Alive
    /\ wpc[w] = "waiting"
    /\ messagesOut = "closed"
    /\ wpc' = [wpc EXCEPT ![w] = "nil"]
    /\ UNCHANGED <<stageVars, loopVars, startVars, stopVars, inVars, histVars>>

\* Mutant of WaitForCloseNil: e.closed carries one value, which the first
\* waiter takes, instead of being closed.
WaitForCloseNil_Consume(w) ==
    /\ Alive
    /\ wpc[w] = "waiting"
    /\ closed = "closed"
    /\ closed' = "open"
    /\ wpc' = [wpc EXCEPT ![w] = "nil"]
    /\ UNCHANGED <<running, messagesIn, messagesOut, closeChan, panic,
                   loopVars, startVars, stopVars, inVars, histVars>>

\* Line 136, 140: case <-e.closed, return nil.
WaitForCloseNil(w) ==
    /\ Alive
    /\ wpc[w] = "waiting"
    /\ closed = "closed"
    /\ wpc' = [wpc EXCEPT ![w] = "nil"]
    /\ UNCHANGED <<stageVars, loopVars, startVars, stopVars, inVars, histVars>>

\* Line 137-138: the timeout elapses, the channel of time.After becomes
\* ready and the select takes it: return types.ErrTimeout.  While a call is
\* "waiting" its timeout has not elapsed.
WaitForCloseTimeout(w) ==
    /\ Alive
    /\ wpc[w] = "waiting"
    /\ wpc' = [wpc EXCEPT ![w] = "ErrTimeout"]
    /\ UNCHANGED <<stageVars, loopVars, startVars, stopVars, inVars, histVars>>

\* ------------------------------------------------------------- producer
\* The producer sends the next transaction on inbound channel c.  The
\* channel is unbuffered: inbox[c] holds the element of the pending send,
\* which completes when a loop receives it.
Send(c) ==
    /\ ~inClosed[c]
    /\ inbox[c] = <<>>
    /\ c \in DataChans
    /\ nsent[c] < MaxTx
    /\ inbox' = [inbox EXCEPT ![c] = Append(@, Tx(c, nsent[c] + 1))]
    /\ nsent' = [nsent EXCEPT ![c] = @ + 1]
    /\ UNCHANGED <<stageVars, loopVars, startVars, stopVars, wpc, inClosed,
                   histVars>>

\* The producer closes inbound channel c.
CloseIn(c) ==
    /\ Alive
    /\ c \in DataChans
    /\ ~inClosed[c]
    /\ inClosed' = [inClosed EXCEPT ![c] = TRUE]
    /\ UNCHANGED <<stageVars, loopVars, startVars, stopVars, wpc, inbox, nsent,
                   histVars>>

\* ---------------------------------------------------------------- steps
\* The steps of the stage, its callers CS (CloseAsync) and WS
\* (WaitForClose), the producer and the consumer.
NextFor(CS, WS) ==
    \/ \E t \in Starters, m \in Args : StartReceivingCheck(t, m)
    \/ \E t \in Starters : StartReceivingAssign(t)
    \/ \E t \in Starters : StartReceivingSpawn(t)
    \/ \E t \in Starters : LoopCheck(t)
    \/ \E t \in Starters : LoopRecv(t)
    \/ \E t \in Starters : LoopRecvClosed(t)
    \/ \E t \in Starters : LoopRecvStop(t)
    \/ \E t \in Starters : LoopSend(t)
    \/ \E t \in Starters : LoopSendClosed(t)
    \/ \E t \in Starters : LoopSendStop(t)
    \/ \E t \in Starters : LoopDeferStore(t)
    \/ \E t \in Starters : LoopDeferCloseOut(t)
    \/ \E t \in Starters : LoopDeferCloseClosed(t)
    \/ \E s \in CS : CloseAsyncCAS(s)
    \/ \E s \in CS : CloseAsyncClose(s)
    \/ \E w \in WS : WaitForCloseCall(w)
    \/ \E w \in WS : WaitForCloseNil(w)
    \/ \E w \in WS : WaitForCloseTimeout(w)
    \/ \E c \in DataChans : Send(c)
    \/ \E c \in DataChans : CloseIn(c)

Next == NextFor(Stoppers, Waiters)

Spec == Init /\ [][Next]_vars

\* ------------------------------------------------------------- fairness
\* The steps of a StartReceiving call in progress.
StartCode(t) == StartReceivingAssign(t) \/ StartReceivingSpawn(t)

\* The steps the loop goroutine takes on its own: every step but the
\* hand-off, which needs the consumer.
LoopCode(t) ==
    \/ LoopCheck(t)
    \/ LoopRecv(t)
    \/ LoopRecvClosed(t)
    \/ LoopRecvStop(t)
    \/ LoopSendClosed(t)
    \/ LoopSendStop(t)
    \/ LoopDeferStore(t)
    \/ LoopDeferCloseOut(t)
    \/ LoopDeferCloseClosed(t)

\* The Go scheduler runs every runnable goroutine: a goroutine of the stage
\* that can take a step eventually takes one.  Nothing is assumed of the
\* callers (whether a call is made), the producer, the consumer or the
\* timers.
CodeFairness(CS, WS) ==
    /\ \A t \in Starters : WF_vars(StartCode(t))
    /\ \A t \in Starters : WF_vars(LoopCode(t))
    /\ \A s \in CS : WF_vars(CloseAsyncClose(s))
    /\ \A w \in WS : WF_vars(WaitForCloseNil(w))

\* The temporal claims are checked with one goroutine calling CloseAsync
\* (any number of times) and one calling WaitForClose.
LiveStoppers == {1}
LiveWaiters == {1}
LiveNext == NextFor(LiveStoppers, LiveWaiters)

CodeFairSpec ==
    Init /\ [][LiveNext]_vars /\ CodeFairness(LiveStoppers, LiveWaiters)

\* In addition the consumer keeps reading TransactionChan() and the producer
\* keeps sending and eventually closes its channel.
FairSpec ==
    /\ CodeFairSpec
    /\ WF_vars(\E t \in Starters : LoopSend(t))
    /\ \A c \in DataChans : WF_vars(Send(c))
    /\ \A c \in DataChans : WF_vars(CloseIn(c))

\* ------------------------------------------------------------- helpers
\* The transactions the producer has sent on channel c, in order.
SentOn(c) == [k \in 1..nsent[c] |-> Tx(c, k)]

\* StartReceiving calls invoked so far.
StartCalls == Cardinality({t \in Starters : spc[t] # "idle"})

\* Loops spawned so far.
Loops == {t \in Starters : lpc[t] # "none"}

IsPrefix(s, r) == Len(s) <= Len(r) /\ \A i \in 1..Len(s) : s[i] = r[i]

\* ------------------------------------------------------------------ C1
\* C1: when StartReceiving is called once with the producer's channel, no
\* stop request is ever issued, the producer sends its transactions and
\* closes the channel and the consumer keeps reading, the consumer
\* eventually has received exactly the transactions sent, in order,
\* messagesOut and closed are closed without a panic, and a WaitForClose
\* whose timeout does not elapse returns nil.
C1_Started(c) == \E t \in Starters : sret[t] = "nil" /\ sarg[t] = c

C1_Final(c) ==
    /\ inClosed[c]
    /\ delivered = SentOn(c)
    /\ messagesOut = "closed"
    /\ closed = "closed"
    /\ panic = "none"

C1_Forwarding ==
    \A c \in DataChans : \A w \in LiveWaiters :
        /\ [](~stopRequested /\ StartCalls <= 1)
             => (C1_Started(c) ~> C1_Final(c))
        /\ [](~stopRequested /\ StartCalls <= 1 /\ wpc[w] # "ErrTimeout")
             => ((C1_Started(c) /\ wpc[w] = "waiting") ~> (wpc[w] = "nil"))

C1_Witness ==
    /\ StartCalls = 1
    /\ ~stopRequested
    /\ C1_Started(1)
    /\ C1_Final(1)
    /\ Len(delivered) = MaxTx
    /\ \E w \in Waiters : wpc[w] = "nil"

\* ------------------------------------------------------------------ C2
\* C2: in every reachable state the sequence of transactions delivered on
\* messagesOut is a prefix of the sequence received from inbound.
C2_DeliveredPrefixOfReceived == IsPrefix(delivered, received)

\* ------------------------------------------------------------------ C3
\* C3: closeChan is closed at most once, close is never invoked on a closed
\* closeChan, and only a CloseAsync call that won the compare-and-swap of
\* running from 1 to 0 executes close(e.closeChan); at most one call wins.
C3_CloseChanOnce ==
    /\ casWins <= 1
    /\ closeChanCloses <= casWins
    /\ panic # "close of closed closeChan"
    /\ (closeChan = "closed") = (closeChanCloses = 1)
    /\ Cardinality({s \in Stoppers : cpc[s] = "close"})
         = casWins - closeChanCloses

\* A CloseAsync call has won the compare-and-swap and is about to close
\* closeChan while a loop that saw its inbound channel closed is finalizing.
C3_Witness ==
    /\ \E s \in Stoppers : cpc[s] = "close"
    /\ \E t \in Starters :
         /\ lpc[t] = "store"
         /\ lch[t] # Nil
         /\ inClosed[lch[t]]
    /\ closeChan = "open"

\* ------------------------------------------------------------------ C4
\* C4: once StartReceiving has returned nil and a stop request has been
\* issued, a loop terminates and messagesOut and closed are closed (which is
\* what lets a WaitForClose with a long timeout return nil), whatever the
\* producer and the consumer do.
C4_Started == \E t \in Starters : sret[t] = "nil"

C4_Closed ==
    /\ messagesOut = "closed"
    /\ closed = "closed"
    /\ \E t \in Loops : lpc[t] = "done"

C4_StopTerminates == (C4_Started /\ stopRequested) ~> C4_Closed

\* ------------------------------------------------------------------ C5
\* C5: a StartReceiving call made after another call with a non-nil
\* channel has returned nil, with no other call in progress, returns
\* ErrAlreadyStarted at once and changes nothing: messagesIn still is the
\* first call's channel, no loop is spawned (then or later by this call),
\* and running, closeChan, closed and messagesOut are unchanged.
C5_SecondCall(t, u) ==
    /\ spc[t] = "idle"
    /\ spc'[t] # "idle"
    /\ spc[u] = "done"
    /\ sret[u] = "nil"
    /\ sarg[u] # Nil

C5_SecondStartFails ==
    [][/\ \A t \in Starters : \A u \in Starters \ {t} :
            C5_SecondCall(t, u) =>
                /\ spc'[t] = "done"
                /\ sret'[t] = "ErrAlreadyStarted"
                /\ messagesIn = sarg[u]
                /\ UNCHANGED <<messagesIn, lpc, running, closeChan, closed,
                               messagesOut>>
       /\ \A t \in Starters :
            sret'[t] = "ErrAlreadyStarted" => lpc'[t] = "none"
      ]_vars

\* The second call was passed another channel and failed; the first
\* attachment and its loop are in place.
C5_Witness ==
    \E t \in Starters : \E u \in Starters \ {t} :
        /\ sret[u] = "nil"
        /\ sarg[u] \in Chans
        /\ sret[t] = "ErrAlreadyStarted"
        /\ sarg[t] \in Chans \ {sarg[u]}
        /\ messagesIn = sarg[u]
        /\ lpc[u] # "none"
        /\ lpc[t] = "none"

\* ------------------------------------------------------------------ C6
\* C6: a WaitForClose call that has returned nil returned it with closed
\* closed; a call during which closed stays open returns ErrTimeout.
C6_NilOnlyWhenClosed ==
    \A w \in Waiters :
        /\ wpc[w] = "nil" => closed = "closed"
        /\ (closed = "open" /\ wpc[w] \notin {"idle", "waiting"})
             => wpc[w] = "ErrTimeout"

\* One call timed out while closed was open (no stop request, inbound
\* open), the other is still waiting.
C6_Witness ==
    /\ closed = "open"
    /\ ~stopRequested
    /\ \A c \in Chans : ~inClosed[c]
    /\ \E w \in Waiters : wpc[w] = "ErrTimeout"
    /\ \E w \in Waiters : wpc[w] = "waiting"

\* ------------------------------------------------------------------ C7
\* C7: when StartReceiving is invoked at most once, messagesOut is closed at
\* most once (no close of the closed channel), and once it is closed the
\* loop is past its last receive and its last send: it only has close(closed)
\* left, or is done, and nothing is sent on the closed channel.
C7_OutClosedOnceAfterLoop ==
    StartCalls <= 1 =>
        /\ panic \notin {"close of closed messagesOut", "send on closed channel"}
        /\ messagesOut = "closed" =>
             /\ Loops # {}
             /\ \A t \in Loops : lpc[t] \in {"closeClosed", "done"}

\* One call, a stop request racing the close of inbound, and messagesOut
\* closed after a transaction went through.
C7_Witness ==
    /\ StartCalls = 1
    /\ messagesOut = "closed"
    /\ closeChan = "closed"
    /\ inClosed[1]
    /\ Len(delivered) >= 1
    /\ \E t \in Loops : lpc[t] = "closeClosed"

\* ------------------------------------------------------------------ C8
\* C8: once the loop has terminated (closed is closed), every transaction
\* received from inbound has been delivered on messagesOut.
Range(q) == {q[i] : i \in 1..Len(q)}

C8_NothingDropped == closed = "closed" => Range(received) = Range(delivered)

\* ------------------------------------------------------------------ C9
\* C9: of two concurrent StartReceiving calls on one instance, each passed a
\* channel, exactly one returns nil and the other ErrAlreadyStarted, one
\* loop is spawned, and messagesOut and closed are never closed twice.
C9_ConcurrentStartSafe ==
    (\A t \in Starters : spc[t] # "idle" => sarg[t] \in Chans) =>
        /\ Cardinality({t \in Starters : sret[t] = "nil"}) <= 1
        /\ Cardinality(Loops) <= 1
        /\ (\A t \in Starters : spc[t] = "done")
             => \E t \in Starters : sret[t] = "ErrAlreadyStarted"
        /\ panic \notin {"close of closed messagesOut",
                         "close of closed closed"}

\* ----------------------------------------------------------------- C10
\* C10: a WaitForClose step changes nothing but the caller's own position
\* (in particular it leaves closed closed: the signal is not consumed), and
\* while the process runs, every call that is waiting once closed is closed
\* can return nil, however many calls have returned nil before.
C10_WaitStep(w) == wpc'[w] # wpc[w]

C10_WaitBroadcast ==
    [][/\ \A w \in Waiters :
            C10_WaitStep(w) =>
                UNCHANGED <<stageVars, loopVars, startVars, stopVars, inVars,
                            histVars>>
       /\ \A w \in Waiters :
            (Alive' /\ closed' = "closed" /\ wpc'[w] = "waiting")
                => (ENABLED WaitForCloseNil(w))'
      ]_vars

\* One call has returned nil and another, made while a stop request is in
\* progress, is still waiting on the closed signal.
C10_Witness ==
    /\ closed = "closed"
    /\ stopRequested
    /\ \E w \in Waiters : wpc[w] = "nil"
    /\ \E w \in Waiters : wpc[w] = "waiting"

\* ----------------------------------------------------------------- C11
\* C11: the deferred function finalizes in the order run flag, messagesOut,
\* closed, whichever way the loop ended: closed is closed only when
\* messagesOut is closed, messagesOut is closed only when running is 0, and
\* a loop is past a step of the deferred function only when the effect of
\* that step is in place.
C11_FinalizationOrder ==
    /\ closed = "closed" => messagesOut = "closed"
    /\ messagesOut = "closed" => running = 0
    /\ \A t \in Starters :
        /\ lpc[t] \in {"closeOut", "closeClosed", "done"} => running = 0
        /\ lpc[t] \in {"closeClosed", "done"} => messagesOut = "closed"
        /\ lpc[t] = "done" => closed = "closed"

\* The loop ended on the closed inbound channel, without a stop request, and
\* is between close(e.messagesOut) and close(e.closed).
C11_Witness ==
    /\ ~stopRequested
    /\ \E t \in Starters : lpc[t] = "closeClosed"
    /\ messagesOut = "closed"
    /\ closed = "open"

\* ----------------------------------------------------------------- C12
\* C12: the stage holds at most one transaction: in every reachable state
\* the number of transactions received from inbound minus the number the
\* consumer has received from messagesOut is 0 or 1.
C12_AtMostOneHeld == Len(received) - Len(delivered) \in {0, 1}

\* ----------------------------------------------------------------- C13
\* C13: a loop that has dequeued a transaction stays blocked on the
\* hand-off for as long as the consumer does not read and no stop request
\* is issued: no step taken meanwhile (closing the inbound channel
\* included) moves it, messagesOut and closed stay open, and no
\* WaitForClose returns nil.
C13_BlockedOnHandOff ==
    [][\A t \in Starters :
        (lpc[t] = "send" /\ ~stopRequested' /\ delivered' = delivered)
            => /\ lpc'[t] = "send"
               /\ messagesOut' = "open"
               /\ closed' = "open"
               /\ \A w \in Waiters : wpc'[w] # "nil"
      ]_vars

\* ----------------------------------------------------------------- C14
\* C14: a step of CloseAsync/StopConsuming changes only the run flag and
\* closeChan (and the caller's own position): messagesOut, closed,
\* messagesIn, the loops, the waiters and the channels' contents are left
\* alone.  While StartReceiving has not been called, messagesOut and closed
\* are open and no WaitForClose has returned nil, whatever stop requests
\* were made.
C14_StopStep == cpc' # cpc \/ stopRequested' # stopRequested

C14_StopFrame ==
    [][/\ C14_StopStep =>
            UNCHANGED <<messagesOut, closed, messagesIn, panic, loopVars,
                        startVars, wpc, inVars, histVars>>
       /\ StartCalls' = 0 =>
            /\ messagesOut' = "open"
            /\ closed' = "open"
            /\ \A w \in Waiters : wpc'[w] # "nil"
      ]_vars

\* StartReceiving was never called, every stop caller has made a request,
\* closeChan is closed, and a WaitForClose has timed out.
C14_Witness ==
    /\ StartCalls = 0
    /\ stopRequested
    /\ casWins = 1
    /\ closeChan = "closed"
    /\ \A s \in Stoppers : cpc[s] = "idle"
    /\ messagesOut = "open"
    /\ closed = "open"
    /\ \E w \in Waiters : wpc[w] = "ErrTimeout"

\* ----------------------------------------------------------------- C15
\* C15: once the compare-and-swap of a CloseAsync call has set running to
\* 0, a loop receives at most one further transaction from inbound and
\* hands at most one further transaction to the consumer, whichever ready
\* case its selects take; a loop that has terminated has done no more.
C15_AtMostOneMore ==
    \A t \in Starters :
        /\ recvAfterStop[t] <= 1
        /\ sentAfterStop[t] <= 1

\* With a transaction waiting on inbound and closeChan already closed, the
\* loop took the inbound case, handed the transaction over and terminated,
\* leaving the next transaction on inbound.
C15_Witness ==
    \E t \in Starters :
        /\ recvAfterStop[t] = 1
        /\ sentAfterStop[t] = 1
        /\ lpc[t] = "done"
        /\ closeChan = "closed"
        /\ lch[t] \in Chans
        /\ inbox[lch[t]] # <<>>

\* ----------------------------------------------------------------- C16
\* C16: when a stop request took effect before StartReceiving, and
\* StartReceiving is then called once, the call still returns nil and sets
\* messagesIn to its argument, and the loop it spawns terminates with
\* messagesOut and closed closed, no panic, and nothing received from
\* inbound or handed to the consumer (received and delivered only grow, so
\* they were empty all along).
C16_Started == stopBeforeStart /\ StartCalls = 1

C16_Finished(t) ==
    /\ sret[t] = "nil"
    /\ messagesIn = sarg[t]
    /\ lpc[t] = "done"
    /\ messagesOut = "closed"
    /\ closed = "closed"
    /\ Alive
    /\ received = <<>>
    /\ delivered = <<>>

C16_StopThenStart ==
    [](StartCalls <= 1)
        => (C16_Started ~> \E t \in Starters : C16_Finished(t))

\* The stop came first, the one StartReceiving call attached the producer's
\* channel, its loop has terminated, and a transaction the producer offered
\* is still on inbound.
C16_Witness ==
    /\ C16_Started
    /\ \E t \in Starters :
        /\ C16_Finished(t)
        /\ sarg[t] \in DataChans
        /\ inbox[sarg[t]] # <<>>

\* ----------------------------------------------------------------- C17
\* C17: a StartReceiving call made after another call has returned nil,
\* whatever argument that call was passed (nil included), returns
\* ErrAlreadyStarted and spawns no loop.
C17_LaterCall(t, u) ==
    /\ spc[u] = "done"
    /\ sret[u] = "nil"
    /\ spc[t] = "idle"
    /\ spc'[t] # "idle"

C17_StartOnlyOnce ==
    [][\A t \in Starters : \A u \in Starters \ {t} :
            C17_LaterCall(t, u) =>
                /\ spc'[t] = "done"
                /\ sret'[t] = "ErrAlreadyStarted"
      ]_vars

====
